---------------------------- MODULE Spec2Model ----------------------------
(***************************************************************************)
(* Model of the news-query core of daily-digest (src/src/news.py):         *)
(* the term quoter, the OR/AND joins, the watchlist expander, the query    *)
(* compiler, the rate-limited fetcher with its retry loop, and the         *)
(* section assembler build_news_sections.                                  *)
(*                                                                         *)
(* Text is a sequence of one-character strings.  Time is an integer count  *)
(* of tenths of a second (5.1 s = 51).                                     *)
(***************************************************************************)
EXTENDS Integers, Sequences, FiniteSets, TLC

(***************************************************************************)
(* Characters and basic text operations (Python str methods).              *)
(***************************************************************************)

Lowers == {"a","b","c","d","e","f","g","h","i","j","k","l","m",
           "n","o","p","q","r","s","t","u","v","w","x","y","z"}

Uppers == {"A","B","C","D","E","F","G","H","I","J","K","L","M",
           "N","O","P","Q","R","S","T","U","V","W","X","Y","Z"}

Digits == {"0","1","2","3","4","5","6","7","8","9"}

\* str.isspace() on one character
IsSpace(c) == c \in {" ", "\t", "\n"}

\* the character class [a-zA-Z0-9_] of WATCHLIST_TOKEN_RE
IsNameChar(c) == c \in Lowers \cup Uppers \cup Digits \cup {"_"}

\* str.lower() on one character
LowerChar(c) ==
    CASE c = "A" -> "a" [] c = "B" -> "b" [] c = "C" -> "c" [] c = "D" -> "d"
      [] c = "E" -> "e" [] c = "F" -> "f" [] c = "G" -> "g" [] c = "H" -> "h"
      [] c = "I" -> "i" [] c = "J" -> "j" [] c = "K" -> "k" [] c = "L" -> "l"
      [] c = "M" -> "m" [] c = "N" -> "n" [] c = "O" -> "o" [] c = "P" -> "p"
      [] c = "Q" -> "q" [] c = "R" -> "r" [] c = "S" -> "s" [] c = "T" -> "t"
      [] c = "U" -> "u" [] c = "V" -> "v" [] c = "W" -> "w" [] c = "X" -> "x"
      [] c = "Y" -> "y" [] c = "Z" -> "z"
      [] OTHER -> c

\* str.lower()
Lower(s) == [i \in 1..Len(s) |-> LowerChar(s[i])]

\* str.replace(a, b) for one-character a and b
ReplaceChar(s, a, b) == [i \in 1..Len(s) |-> IF s[i] = a THEN b ELSE s[i]]

\* s[:n]
Take(s, n) == SubSeq(s, 1, IF n < Len(s) THEN n ELSE Len(s))

\* str.startswith at 1-based position i
StartsAt(s, i, sub) ==
    /\ i + Len(sub) - 1 <= Len(s)
    /\ SubSeq(s, i, i + Len(sub) - 1) = sub

\* sub in s
Contains(s, sub) == \E i \in 1..Len(s) : StartsAt(s, i, sub)

\* str.strip()
RECURSIVE LStrip(_)
LStrip(s) == IF s # <<>> /\ IsSpace(Head(s)) THEN LStrip(Tail(s)) ELSE s

RECURSIVE RStrip(_)
RStrip(s) ==
    IF s # <<>> /\ IsSpace(s[Len(s)]) THEN RStrip(SubSeq(s, 1, Len(s) - 1)) ELSE s

Strip(s) == RStrip(LStrip(s))

\* sep.join(parts)
RECURSIVE Join(_, _)
Join(parts, sep) ==
    IF parts = <<>> THEN <<>>
    ELSE IF Len(parts) = 1 THEN parts[1]
    ELSE parts[1] \o sep \o Join(Tail(parts), sep)

\* [f(x) for x in xs if keep(x)] helpers
RECURSIVE StripNonBlank(_)
StripNonBlank(xs) ==
    IF xs = <<>> THEN <<>>
    ELSE IF Strip(Head(xs)) # <<>>
         THEN <<Strip(Head(xs))>> \o StripNonBlank(Tail(xs))
         ELSE StripNonBlank(Tail(xs))

(***************************************************************************)
(* Term quoter and boolean joins.                                          *)
(***************************************************************************)

OrOp  == <<" ", "O", "R", " ">>
AndOp == <<" ", "A", "N", "D", " ">>

\* the same, had only a term that begins and ends with a quote been taken
\* as quoted already
_quote_term_OnlyDelimited(term) ==
    LET t == Strip(term) IN
    IF t = <<>> THEN <<>>
    ELSE IF \/ Contains(t, <<":">>)
            \/ Contains(t, AndOp) \/ Contains(t, OrOp)
            \/ Contains(t, <<"(">>) \/ Contains(t, <<")">>)
            \/ (Len(t) >= 2 /\ t[1] = "\"" /\ t[Len(t)] = "\"")
         THEN t
    ELSE IF \E i \in 1..Len(t) : IsSpace(t[i])
         THEN <<"\"">> \o t \o <<"\"">>
    ELSE t

\* _quote_term
_quote_term(term) ==
    LET t == Strip(term) IN
    IF t = <<>> THEN <<>>
    ELSE IF \/ Contains(t, <<":">>)
            \/ Contains(t, AndOp) \/ Contains(t, OrOp)
            \/ Contains(t, <<"(">>) \/ Contains(t, <<")">>)
            \/ Contains(t, <<"\"">>)
         THEN t
    ELSE IF \E i \in 1..Len(t) : IsSpace(t[i])
         THEN <<"\"">> \o t \o <<"\"">>
    ELSE t

\* the same, had a single term been parenthesised too
_join_or_AlwaysParens(terms) ==
    LET clean == StripNonBlank(terms)
        parts == [i \in 1..Len(clean) |-> _quote_term(clean[i])]
    IN  IF clean = <<>> THEN <<>>
        ELSE <<"(">> \o Join(parts, OrOp) \o <<")">>

\* _join_or
_join_or(terms) ==
    LET clean == StripNonBlank(terms)
        parts == [i \in 1..Len(clean) |-> _quote_term(clean[i])]
    IN  IF clean = <<>> THEN <<>>
        ELSE IF Len(parts) = 1 THEN parts[1]
        ELSE <<"(">> \o Join(parts, OrOp) \o <<")">>

\* the same, had the entries of the list been counted before the blank ones
\* were dropped
_join_and_CountsBlanks(parts) ==
    LET clean == StripNonBlank(parts) IN
    IF clean = <<>> THEN <<>>
    ELSE IF Len(parts) = 1 THEN clean[1]
    ELSE <<"(">> \o Join(clean, AndOp) \o <<")">>

\* _join_and
_join_and(parts) ==
    LET clean == StripNonBlank(parts) IN
    IF clean = <<>> THEN <<>>
    ELSE IF Len(clean) = 1 THEN clean[1]
    ELSE <<"(">> \o Join(clean, AndOp) \o <<")">>

(***************************************************************************)
(* Watchlist expander.                                                     *)
(***************************************************************************)

TokenOpen  == <<"{", "{", "w", "a", "t", "c", "h", "l", "i", "s", "t", ":">>
TokenOnly  == <<"|", "o", "n", "l", "y", ":">>
TokenClose == <<"}", "}">>

\* length of the longest run of [a-zA-Z0-9_] starting at position p
RECURSIVE NameRun(_, _)
NameRun(s, p) ==
    IF p <= Len(s) /\ IsNameChar(s[p]) THEN 1 + NameRun(s, p + 1) ELSE 0

\* length of the longest run of [^}] starting at position p
RECURSIVE NonBraceRun(_, _)
NonBraceRun(s, p) ==
    IF p <= Len(s) /\ s[p] # "}" THEN 1 + NonBraceRun(s, p + 1) ELSE 0

NoMatch == [len |-> 0, name |-> <<>>, hasOnly |-> FALSE, only |-> <<>>]

\* WATCHLIST_TOKEN_RE.match at position i: the match's length (0: no match),
\* group 1 (name), whether group 2 took part, and group 3 (only)
WATCHLIST_TOKEN_RE(s, i) ==
    IF ~StartsAt(s, i, TokenOpen) THEN NoMatch
    ELSE LET p == i + Len(TokenOpen)
             k == NameRun(s, p)
             q == p + k
             o == q + Len(TokenOnly)
             m == NonBraceRun(s, o)
         IN  IF k = 0 THEN NoMatch
             ELSE IF StartsAt(s, q, TokenOnly) /\ m > 0 /\ StartsAt(s, o + m, TokenClose)
                  THEN [len |-> (o + m + Len(TokenClose)) - i,
                        name |-> SubSeq(s, p, q - 1),
                        hasOnly |-> TRUE,
                        only |-> SubSeq(s, o, o + m - 1)]
             ELSE IF StartsAt(s, q, TokenClose)
                  THEN [len |-> (q + Len(TokenClose)) - i,
                        name |-> SubSeq(s, p, q - 1),
                        hasOnly |-> FALSE,
                        only |-> <<>>]
             ELSE NoMatch

\* the same, had the comparison kept the case
RECURSIVE FilterOnly_CaseSensitive(_, _)
FilterOnly_CaseSensitive(terms, only_val) ==
    IF terms = <<>> THEN <<>>
    ELSE IF Strip(Head(terms)) = only_val
         THEN <<Head(terms)>> \o FilterOnly_CaseSensitive(Tail(terms), only_val)
         ELSE FilterOnly_CaseSensitive(Tail(terms), only_val)

\* [t for t in terms if t.strip().lower() == only_val.lower()]
RECURSIVE FilterOnly(_, _)
FilterOnly(terms, only_val) ==
    IF terms = <<>> THEN <<>>
    ELSE IF Lower(Strip(Head(terms))) = Lower(only_val)
         THEN <<Head(terms)>> \o FilterOnly(Tail(terms), only_val)
         ELSE FilterOnly(Tail(terms), only_val)

\* [t for t in terms if t.strip()]
RECURSIVE NonBlank(_)
NonBlank(xs) ==
    IF xs = <<>> THEN <<>>
    ELSE IF Strip(Head(xs)) # <<>> THEN <<Head(xs)>> \o NonBlank(Tail(xs))
    ELSE NonBlank(Tail(xs))

\* an exception: its class, the fixed part of its message and the part
\* of the message that comes from the input
Exc(cls, text, arg) == [exc |-> cls, text |-> text, arg |-> arg]

\* str(e)
StrOf(e) == [text |-> e.text, arg |-> e.arg]

\* a value returned, or an exception raised
Ret(v)   == [ok |-> TRUE, val |-> v, err |-> Exc("", "", <<>>)]
Raise(e) == [ok |-> FALSE, val |-> <<>>, err |-> e]

\* repl, the replacement of one token (called only when name is a watchlist)
repl(m, watchlists) ==
    LET only_val == IF m.hasOnly THEN Strip(m.only) ELSE <<>>
        terms    == watchlists[m.name]
        kept     == IF only_val # <<>> THEN FilterOnly(terms, only_val) ELSE terms
    IN  _join_or(NonBlank(kept))

\* WATCHLIST_TOKEN_RE.sub(repl, text) from position i on
RECURSIVE SubFrom(_, _, _)
SubFrom(text, i, watchlists) ==
    IF i > Len(text) THEN Ret(<<>>)
    ELSE LET m == WATCHLIST_TOKEN_RE(text, i) IN
         IF m.len = 0
         THEN LET r == SubFrom(text, i + 1, watchlists) IN
              IF r.ok THEN Ret(<<text[i]>> \o r.val) ELSE r
         ELSE IF m.name \notin DOMAIN watchlists
              THEN Raise(Exc("KeyError", "Missing watchlist", m.name))
         ELSE LET r == SubFrom(text, i + m.len, watchlists) IN
              IF r.ok THEN Ret(repl(m, watchlists) \o r.val) ELSE r

\* the same, had the text been scanned again after the substitution
_expand_watchlist_tokens_Rescan(text, watchlists) ==
    LET r == SubFrom(text, 1, watchlists) IN
    IF r.ok THEN SubFrom(r.val, 1, watchlists) ELSE r

\* _expand_watchlist_tokens
_expand_watchlist_tokens(text, watchlists) == SubFrom(text, 1, watchlists)

(***************************************************************************)
(* Query compiler.                                                         *)
(***************************************************************************)

\* the loop over template["and"]: the fragments added to and_parts
RECURSIVE AndFragments(_, _)
AndFragments(and_list, watchlists) ==
    IF and_list = <<>> THEN Ret(<<>>)
    ELSE LET frag == Strip(Head(and_list)) IN
         IF frag = <<>> THEN AndFragments(Tail(and_list), watchlists)
         ELSE LET e == _expand_watchlist_tokens(frag, watchlists) IN
              IF ~e.ok THEN e
              ELSE LET r == AndFragments(Tail(and_list), watchlists) IN
                   IF r.ok THEN Ret(<<e.val>> \o r.val) ELSE r

\* f"domain:{d.strip()}" for d in exclude_domains if d and d.strip()
DomainTokens(exclude_domains) ==
    LET clean == StripNonBlank(exclude_domains) IN
    [i \in 1..Len(clean) |-> <<"d", "o", "m", "a", "i", "n", ":">> \o clean[i]]

\* _build_query_from_template
_build_query_from_template(template, watchlists, global_and, exclude_domains) ==
    LET or_part  == IF template.or # <<>> THEN <<_join_or(template.or)>> ELSE <<>>
        frags    == AndFragments(template.and, watchlists)
        glob     == IF global_and # <<>> THEN <<Strip(global_and)>> ELSE <<>>
        ex       == DomainTokens(exclude_domains)
        excl     == IF ex # <<>>
                    THEN << <<"-", "(">> \o _join_or(ex) \o <<")">> >>
                    ELSE <<>>
    IN  IF ~frags.ok THEN frags
        ELSE Ret(_join_and(or_part \o frags.val \o glob \o excl))

(***************************************************************************)
(* Bounds of the model and constants of the program.                       *)
(***************************************************************************)

\* the longest list of configured news sections
MaxTopics == 2

\* time.time() when the process starts, in tenths of a second
StartClock == 1000

\* _enforce_gdelt_spacing(5.1)
MIN_GAP == 51

\* requests.get(..., timeout=30)
HTTP_TIMEOUT == 300

\* the same, had the list had a sixth entry
backoffs_SixAttempts == <<0, 50, 50, 100, 150, 150>>

\* backoffs = [0, 5, 5, 10, 15]
backoffs == <<0, 50, 50, 100, 150>>

\* the statuses _gdelt_search raises RuntimeError for
RetryableStatus == {429, 500, 502, 503, 504}

\* the error statuses the endpoint of the model answers with
StatusPool == {400, 429, 503}

\* the most attempts that fail in one run
MaxFailures == 5

\* the most attempts that time out in one run
MaxTimeouts == 1

(***************************************************************************)
(* Configuration: the inputs of build_news_sections.                       *)
(***************************************************************************)

StrName(text) == [isStr |-> TRUE, text |-> text]

\* a YAML scalar that is not a string (name: 7); text is its str()
IntName(text) == [isStr |-> FALSE, text |-> text]

NoTemplate == [or |-> <<>>, and |-> <<>>]

PlainTopic(name, query) ==
    [name |-> name, type |-> "gdelt", hasQuery |-> TRUE, query |-> query,
     template |-> NoTemplate, count |-> 1, lookback_hours |-> 24]

TemplateTopic(name, template) ==
    [name |-> name, type |-> "gdelt_template", hasQuery |-> FALSE, query |-> <<>>,
     template |-> template, count |-> 2, lookback_hours |-> 12]

TokenW == TokenOpen \o <<"w">> \o TokenClose
TokenU == TokenOpen \o <<"u">> \o TokenClose

\* the section definitions a configuration draws from.  With a name that is
\* a string: a literal query, an empty template, a template naming a
\* watchlist the configuration lacks.  With a name that is not a string
\* (name: 7): a template using a watchlist, an empty template, a template
\* naming a missing watchlist.
TopicPool ==
    { PlainTopic(StrName(<<"A", " ", "b">>), <<" ", "a", " ", "b">>),
      TemplateTopic(StrName(<<"C", "/", "d">>), NoTemplate),
      TemplateTopic(StrName(<<"m">>), [or |-> <<>>, and |-> <<TokenU>>]),
      TemplateTopic(IntName(<<"7">>), [or |-> << <<"a">> >>, and |-> <<TokenW>>]),
      TemplateTopic(IntName(<<"8">>), NoTemplate),
      TemplateTopic(IntName(<<"9">>), [or |-> <<>>, and |-> <<TokenU>>]) }

Watchlists == (<<"w">> :> << <<"x">>, <<"y", " ", "z">> >>)

SectionLists == UNION { [1..n -> TopicPool] : n \in 0..MaxTopics }

\* news.defaults and news.throttle_seconds_between_sections: nothing
\* configured and no throttle, or a suffix, an excluded domain and the
\* default throttle of 7 s
DefaultsPool ==
    { [global_and |-> <<>>, exclude_domains |-> <<>>, throttle_s |-> 0],
      [global_and |-> <<"g">>, exclude_domains |-> << <<"x">> >>, throttle_s |-> 70] }

Configs ==
    { [sections |-> ss, watchlists |-> Watchlists, global_and |-> d.global_and,
       exclude_domains |-> d.exclude_domains, throttle_s |-> d.throttle_s] :
      ss \in SectionLists, d \in DefaultsPool }

(***************************************************************************)
(* The endpoint: what one requests.get can do.                             *)
(***************************************************************************)

Art1 == [title |-> "t1", domain |-> "d1", url |-> "u1", seendate |-> "s1"]
Art2 == [title |-> "t2", url |-> "u2"]

\* response bodies that parse to a dict: their "articles"
Bodies == { <<>>, <<Art1, Art2>> }

Responses ==
    [kind : {"json"}, status : {200}, articles : Bodies, dur : {0}]
      \cup [kind : {"status"}, status : StatusPool,
            articles : {<<>>}, dur : {0}]
      \cup [kind : {"badjson"}, status : {200}, articles : {<<>>}, dur : {0}]
      \cup [kind : {"timeout"}, status : {0}, articles : {<<>>}, dur : {HTTP_TIMEOUT}]

StatusText(code) ==
    CASE code = 400 -> <<"4", "0", "0">>
      [] code = 429 -> <<"4", "2", "9">>
      [] code = 500 -> <<"5", "0", "0">>
      [] code = 502 -> <<"5", "0", "2">>
      [] code = 503 -> <<"5", "0", "3">>
      [] code = 504 -> <<"5", "0", "4">>
      [] OTHER -> <<>>

NoErr == Exc("None", "", <<>>)

\* a.get(k) or ""
Field(a, k) == IF k \in DOMAIN a THEN a[k] ELSE ""

\* the dict _gdelt_search builds from one article
Project(a) ==
    [title |-> Field(a, "title"), domain |-> Field(a, "domain"),
     url |-> Field(a, "url"), seendate |-> Field(a, "seendate")]

\* the body of the try block of one attempt: the list returned or the
\* exception raised for a response
AttemptResult(resp, max_items) ==
    IF resp.kind = "timeout"
    THEN Raise(Exc("Timeout", "Read timed out", <<>>))
    ELSE IF resp.status \in RetryableStatus
    THEN Raise(Exc("RuntimeError", "GDELT HTTP", StatusText(resp.status)))
    ELSE IF resp.status >= 400
    THEN Raise(Exc("HTTPError", "Client Error", StatusText(resp.status)))
    ELSE IF resp.kind = "badjson"
    THEN Raise(Exc("JSONDecodeError", "Expecting value", <<>>))
    ELSE LET arts == Take(resp.articles, max_items) IN
         Ret([i \in 1..Len(arts) |-> Project(arts[i])])

(***************************************************************************)
(* State of one run of build_news_sections.                                *)
(***************************************************************************)

VARIABLES
    cfg,                  \* the configuration (read-only during the run)
    pc,                   \* position of the single thread of control
    idx,                  \* 1-based position of the loop over sections
    out_sections,         \* the list being built
    query,                \* the resolved query of the current section
    attempt,              \* 1-based position in backoffs
    last_err,             \* last_err of _gdelt_search
    items,                \* the list _gdelt_search returned
    exc,                  \* the exception in flight
    _LAST_GDELT_CALL_TS,  \* the process-wide timestamp
    now,                  \* the wall clock
    lastCallAt,           \* history: when the last requests.get was issued (-1: never)
    iterStart,            \* history: when the current retry iteration began
    hist                  \* history: per section, what its processing did

\* one call of a query function on its own, outside a run
VARIABLES
    call,                 \* the function called and its arguments
    result                \* what it returned or raised

\* no call is in progress during a run of build_news_sections
NoCall ==
    [fn |-> "none", term |-> <<>>, terms |-> <<>>, pieces |-> <<>>,
     template |-> NoTemplate, watchlists |-> Watchlists, global_and |-> <<>>,
     exclude_domains |-> <<>>]

\* the call has not returned yet
NoResult == Raise(Exc("Pending", "", <<>>))

vars == <<cfg, pc, idx, out_sections, query, attempt, last_err, items, exc,
          _LAST_GDELT_CALL_TS, now, lastCallAt, iterStart, hist, call, result>>

\* the section being processed
Cur == cfg.sections[idx]

\* history record of a section whose processing begins
NewHist(ts) ==
    [calls |-> 0, okAt |-> 0, okArticles |-> <<>>, lastFailure |-> NoErr, ts0 |-> ts,
     timeouts |-> 0, throttled |-> 0, resolved |-> Raise(NoErr)]

RECURSIVE Timeouts(_)
Timeouts(h) == IF h = <<>> THEN 0 ELSE Head(h).timeouts + Timeouts(Tail(h))

\* history: the attempts that failed so far in the run
RECURSIVE Failures(_)
Failures(h) ==
    IF h = <<>> THEN 0
    ELSE Head(h).calls - (IF Head(h).okAt > 0 THEN 1 ELSE 0) + Failures(Tail(h))

Init ==
    /\ cfg \in Configs
    /\ pc = "loop"
    /\ idx = 0
    /\ out_sections = <<>>
    /\ query = <<>>
    /\ attempt = 1
    /\ last_err = NoErr
    /\ items = <<>>
    /\ exc = NoErr
    /\ _LAST_GDELT_CALL_TS = 0
    /\ now = StartClock
    /\ lastCallAt = -1
    /\ iterStart = StartClock
    /\ hist = <<>>
    /\ call = NoCall
    /\ result = NoResult

(***************************************************************************)
(* build_news_sections.                                                    *)
(***************************************************************************)

\* the same, had the throttle been left to the rate limiter until a
\* request has been sent
ThrottleBefore_OnlyAfterCalls(i, throttle_s) ==
    IF i > 0 /\ throttle_s > 0 /\ lastCallAt >= 0 THEN throttle_s ELSE 0

\* the delay of line 200-201 before the section at 0-based position i
ThrottleBefore(i, throttle_s) == IF i > 0 /\ throttle_s > 0 THEN throttle_s ELSE 0

\* lines 193-201: the loop takes the next section and throttles
NextTopic ==
    /\ pc = "loop"
    /\ idx < Len(cfg.sections)
    /\ idx' = idx + 1
    /\ now' = now + ThrottleBefore(idx, cfg.throttle_s)
    /\ hist' = Append(hist, [NewHist(_LAST_GDELT_CALL_TS) EXCEPT
                                 !.throttled = now' - now])
    /\ pc' = "try"
    /\ UNCHANGED <<cfg, out_sections, query, attempt, last_err, items, exc,
                   _LAST_GDELT_CALL_TS, lastCallAt, iterStart>>

\* the same, had the global AND suffix and the exclusions been applied to a
\* literal query as well
ResolveQuery_DefaultsOnPlain(s, c) ==
    IF s.type = "gdelt"
    THEN IF s.hasQuery
         THEN _build_query_from_template([or |-> <<>>, and |-> <<s.query>>],
                  c.watchlists, Strip(c.global_and), c.exclude_domains)
         ELSE Raise(Exc("KeyError", "query", <<>>))
    ELSE _build_query_from_template(s.template, c.watchlists,
                                    Strip(c.global_and), c.exclude_domains)

\* the same, had the list of AND clauses been shared between compilations
\* (a list created once and appended to by every call)
ResolveQuery_SharedParts(s, c) ==
    IF s.type = "gdelt"
    THEN IF s.hasQuery THEN Ret(s.query)
         ELSE Raise(Exc("KeyError", "query", <<>>))
    ELSE LET before == IF idx > 1 /\ hist[idx - 1].resolved.ok
                                  /\ Strip(hist[idx - 1].resolved.val) # <<>>
                       THEN <<hist[idx - 1].resolved.val>>
                       ELSE <<>>
         IN _build_query_from_template(
                [or |-> s.template.or, and |-> before \o s.template.and],
                c.watchlists, Strip(c.global_and), c.exclude_domains)

\* lines 204-212: the query of a section, or the exception raised
ResolveQuery(s, c) ==
    IF s.type = "gdelt"
    THEN IF s.hasQuery THEN Ret(s.query)
         ELSE Raise(Exc("KeyError", "query", <<>>))
    ELSE _build_query_from_template(s.template, c.watchlists,
                                    Strip(c.global_and), c.exclude_domains)

\* lines 203-217: resolve the query; a blank one raises, another enters
\* _gdelt_search
Resolve ==
    /\ pc = "try"
    /\ LET r == ResolveQuery(Cur, cfg) IN
       /\ IF ~r.ok
          THEN /\ exc' = r.err
               /\ pc' = "except"
               /\ UNCHANGED <<query, attempt, last_err, iterStart>>
          ELSE IF Strip(r.val) = <<>>
          THEN /\ exc' = Exc("RuntimeError", "Empty query generated for section",
                             Cur.name.text)
               /\ pc' = "except"
               /\ query' = r.val
               /\ UNCHANGED <<attempt, last_err, iterStart>>
          ELSE /\ query' = r.val
               /\ attempt' = 1
               /\ last_err' = NoErr
               /\ iterStart' = now
               /\ pc' = "backoff"
               /\ exc' = exc
       /\ hist' = [hist EXCEPT ![idx].resolved = r]
    /\ UNCHANGED <<cfg, idx, out_sections, items, _LAST_GDELT_CALL_TS, now,
                   lastCallAt>>

(***************************************************************************)
(* _gdelt_search and _enforce_gdelt_spacing.                               *)
(***************************************************************************)

\* the same, had the loop taken the wait of the attempt before
BackoffWait_OffByOne(i) == IF i > 1 THEN backoffs[i - 1] ELSE 0

\* the same, had every retry waited 5 s
BackoffWait_Flat(i) == IF i > 1 THEN 50 ELSE 0

\* lines 143-144: the sleep before the attempt at 1-based position i
BackoffWait(i) == backoffs[i]

Backoff ==
    /\ pc = "backoff"
    /\ now' = now + BackoffWait(attempt)
    /\ pc' = "spacing"
    /\ UNCHANGED <<cfg, idx, out_sections, query, attempt, last_err, items, exc,
                   _LAST_GDELT_CALL_TS, lastCallAt, iterStart, hist>>

\* the same, had the spacing been measured in whole seconds (5 s)
SleepFor_WholeSeconds(last_ts, now_ts, min_gap_seconds) ==
    LET sleep_for == (last_ts + (min_gap_seconds \div 10) * 10) - now_ts IN
    IF sleep_for > 0 THEN sleep_for ELSE 0

\* lines 115-118: how long _enforce_gdelt_spacing sleeps
SleepFor(last_ts, now_ts, min_gap_seconds) ==
    LET sleep_for == (last_ts + min_gap_seconds) - now_ts IN
    IF sleep_for > 0 THEN sleep_for ELSE 0

\* the same, had the timestamp been the time read before the sleep (now_ts)
_enforce_gdelt_spacing_StaleStamp ==
    /\ pc = "spacing"
    /\ now' = now + SleepFor(_LAST_GDELT_CALL_TS, now, MIN_GAP)
    /\ _LAST_GDELT_CALL_TS' = now
    /\ pc' = "request"
    /\ UNCHANGED <<cfg, idx, out_sections, query, attempt, last_err, items, exc,
                   lastCallAt, iterStart, hist>>

\* _enforce_gdelt_spacing(5.1)
_enforce_gdelt_spacing ==
    /\ pc = "spacing"
    /\ now' = now + SleepFor(_LAST_GDELT_CALL_TS, now, MIN_GAP)
    /\ _LAST_GDELT_CALL_TS' = now'
    /\ pc' = "request"
    /\ UNCHANGED <<cfg, idx, out_sections, query, attempt, last_err, items, exc,
                   lastCallAt, iterStart, hist>>

\* line 142: whether the loop over backoffs has another iteration after i
HasNextAttempt(i) == i < Len(backoffs)

\* the same, had the except clause re-raised what is not a retryable status
ContinuesAfter_OnlyRetryable(e, i) == HasNextAttempt(i) /\ e.exc = "RuntimeError"

\* lines 171-174: except Exception ... continue: whatever the attempt at
\* position i raised, the loop goes on while backoffs has entries
ContinuesAfter(e, i) == HasNextAttempt(i)

\* lines 171-172: last_err after an attempt failed with e
RecordFailure(prev, e) == e

\* lines 149-169: requests.get answers and the answer yields a list
AttemptOk ==
    /\ pc = "request"
    /\ \E resp \in Responses :
         LET r == AttemptResult(resp, Cur.count) IN
         /\ r.ok
         /\ items' = r.val
         /\ now' = now + resp.dur
         /\ hist' = [hist EXCEPT ![idx].calls = @ + 1,
                                 ![idx].okAt = attempt,
                                 ![idx].okArticles = resp.articles,
                                 ![idx].lastFailure = NoErr]
    /\ lastCallAt' = now
    /\ iterStart' = now'
    /\ attempt' = 1
    /\ last_err' = NoErr
    /\ pc' = "append"
    /\ UNCHANGED <<cfg, idx, out_sections, query, exc, _LAST_GDELT_CALL_TS>>

\* lines 149-176: the attempt raises; the loop goes on, or ends and
\* line 176 raises last_err
AttemptFail ==
    /\ pc = "request"
    /\ Failures(hist) < MaxFailures
    /\ \E resp \in Responses :
         LET r == AttemptResult(resp, Cur.count)
             e == RecordFailure(last_err, r.err)
         IN  /\ ~r.ok
             /\ now' = now + resp.dur
             /\ resp.kind = "timeout" => Timeouts(hist) < MaxTimeouts
             /\ hist' = [hist EXCEPT ![idx].calls = @ + 1,
                                     ![idx].lastFailure = r.err,
                                     ![idx].timeouts = @ + (IF resp.kind = "timeout" THEN 1 ELSE 0)]
             /\ IF ContinuesAfter(r.err, attempt)
                THEN /\ attempt' = attempt + 1
                     /\ last_err' = e
                     /\ pc' = "backoff"
                     /\ exc' = exc
                ELSE /\ attempt' = 1
                     /\ last_err' = NoErr
                     /\ pc' = "except"
                     /\ exc' = e
    /\ lastCallAt' = now
    /\ iterStart' = now'
    /\ UNCHANGED <<cfg, idx, out_sections, query, items, _LAST_GDELT_CALL_TS>>

(***************************************************************************)
(* build_news_sections: the two places that append a section.              *)
(***************************************************************************)

NewsPrefix  == <<"n", "e", "w", "s", "_">>

\* "News " + em dash + " " (the em dash is the one element "emdash")
TitlePrefix == <<"N", "e", "w", "s", " ", "emdash", " ">>

\* f"news_{name.lower().replace(' ', '_').replace('/', '_')}"
SectionId(text) == NewsPrefix \o ReplaceChar(ReplaceChar(Lower(text), " ", "_"), "/", "_")

\* f"News - {name}"
SectionTitle(text) == TitlePrefix \o text

\* whether name.lower() can be evaluated
HasLower(name) == name.isStr

\* the dict of lines 220-225
SuccessSection(s, its, q) ==
    [id |-> SectionId(s.name.text), title |-> SectionTitle(s.name.text),
     type |-> "news",
     data |-> [items |-> its, count |-> s.count,
               lookback_hours |-> s.lookback_hours, query |-> q]]

\* the same, had the error section carried the items variable, which holds
\* what an earlier section fetched
ErrorSection_StaleItems(s, e) ==
    [id |-> SectionId(s.name.text), title |-> SectionTitle(s.name.text),
     type |-> "news",
     data |-> [items |-> items, count |-> s.count,
               lookback_hours |-> s.lookback_hours, query |-> <<>>,
               error |-> StrOf(e)]]

\* the dict of lines 231-242
ErrorSection(s, e) ==
    [id |-> SectionId(s.name.text), title |-> SectionTitle(s.name.text),
     type |-> "news",
     data |-> [items |-> <<>>, count |-> s.count,
               lookback_hours |-> s.lookback_hours, query |-> <<>>,
               error |-> StrOf(e)]]

AttributeError == Exc("AttributeError", "'int' object has no attribute 'lower'", <<>>)

\* lines 219-226: append the section; building its id can raise
AppendSection ==
    /\ pc = "append"
    /\ IF HasLower(Cur.name)
       THEN /\ out_sections' = Append(out_sections, SuccessSection(Cur, items, query))
            /\ pc' = "loop"
            /\ exc' = exc
       ELSE /\ exc' = AttributeError
            /\ pc' = "except"
            /\ out_sections' = out_sections
    /\ UNCHANGED <<cfg, idx, query, attempt, last_err, items,
                   _LAST_GDELT_CALL_TS, now, lastCallAt, iterStart, hist>>

\* lines 228-243: the except block appends the error section; building its
\* id can raise, and nothing catches that inside build_news_sections
ExceptHandler ==
    /\ pc = "except"
    /\ IF HasLower(Cur.name)
       THEN /\ out_sections' = Append(out_sections, ErrorSection(Cur, exc))
            /\ pc' = "loop"
            /\ exc' = NoErr
       ELSE /\ exc' = AttributeError
            /\ pc' = "raised"
            /\ out_sections' = out_sections
    /\ UNCHANGED <<cfg, idx, query, attempt, last_err, items,
                   _LAST_GDELT_CALL_TS, now, lastCallAt, iterStart, hist>>

\* line 245
Return ==
    /\ pc = "loop"
    /\ idx = Len(cfg.sections)
    /\ pc' = "returned"
    /\ UNCHANGED <<cfg, idx, out_sections, query, attempt, last_err, items, exc,
                   _LAST_GDELT_CALL_TS, now, lastCallAt, iterStart, hist>>

Next ==
    \/ NextTopic /\ UNCHANGED <<call, result>>
    \/ Resolve /\ UNCHANGED <<call, result>>
    \/ Backoff /\ UNCHANGED <<call, result>>
    \/ _enforce_gdelt_spacing /\ UNCHANGED <<call, result>>
    \/ AttemptOk /\ UNCHANGED <<call, result>>
    \/ AttemptFail /\ UNCHANGED <<call, result>>
    \/ AppendSection /\ UNCHANGED <<call, result>>
    \/ ExceptHandler /\ UNCHANGED <<call, result>>
    \/ Return /\ UNCHANGED <<call, result>>

Spec == Init /\ [][Next]_vars

\* the steps of a run other than Resolve
StepButResolve ==
    /\ \/ NextTopic
       \/ Backoff
       \/ _enforce_gdelt_spacing
       \/ AttemptOk
       \/ AttemptFail
       \/ AppendSection
       \/ ExceptHandler
       \/ Return
    /\ UNCHANGED <<call, result>>

\* the run is one thread of control and each of its statements completes:
\* a sleep lasts a finite time and requests.get is given timeout=30, so
\* the run takes its next step whenever it has one.  For Resolve, which is
\* enabled exactly when pc = "try" and always leaves that position, weak
\* fairness is written out: control is not at "try" forever.
FairSpec ==
    /\ Spec
    /\ WF_vars(StepButResolve)
    /\ []<>(pc # "try")

(***************************************************************************)
(* The query functions called on their own.  A call draws its arguments    *)
(* from the pools below and one action per function applies it.            *)
(***************************************************************************)

\* the longest list of terms handed to _join_or and _join_and
MaxTerms == 3

\* the most pieces (literal text or placeholder) of a text handed to
\* _expand_watchlist_tokens
MaxPieces == 2

Tab == <<"\t">>
Quote == <<"\"">>

\* terms handed to _quote_term: blank ones, single words, several words,
\* field syntax, operators, parentheses, quotes around and inside
TermPool ==
    { <<>>, <<" ">>, <<"a">>, <<" ", "a", " ">>, <<"a", " ", "b">>,
      <<"a">> \o Tab \o <<"b">>,
      <<"a", ":", "b", " ", "c">>,
      <<"x">> \o AndOp \o <<"y">>,
      <<"x">> \o OrOp \o <<"y">>,
      <<"A", "N", "D", " ", "y">>,
      <<"(", " ", "b">>, <<"b", " ", ")">>,
      Quote \o <<"a", " ", "b">> \o Quote,
      <<"a", " ">> \o Quote \o <<"b">>,
      Quote \o <<"a", " ", "b">> }

\* terms of the lists handed to _join_or and _join_and
JoinPool == { <<>>, <<" ">>, <<"a">>, <<"b", " ", "c">>, <<" ", "d", " ">> }

TermLists == UNION { [1..n -> JoinPool] : n \in 0..MaxTerms }

\* a piece of a text: literal characters, or a placeholder
Lit(text) ==
    [isTok |-> FALSE, lit |-> text, name |-> <<>>, hasOnly |-> FALSE, only |-> <<>>]
Tok(name) ==
    [isTok |-> TRUE, lit |-> <<>>, name |-> name, hasOnly |-> FALSE, only |-> <<>>]
TokOnly(name, only) ==
    [isTok |-> TRUE, lit |-> <<>>, name |-> name, hasOnly |-> TRUE, only |-> only]

\* the characters of a piece
Render(p) ==
    IF p.isTok
    THEN TokenOpen \o p.name \o (IF p.hasOnly THEN TokenOnly \o p.only ELSE <<>>)
             \o TokenClose
    ELSE p.lit

RECURSIVE RenderAll(_)
RenderAll(ps) == IF ps = <<>> THEN <<>> ELSE Render(Head(ps)) \o RenderAll(Tail(ps))

TokenV == Render(Tok(<<"v">>))

\* literal text; placeholders of the lists w and v and of a list that is
\* missing; filters that match two terms, one term (with blanks around),
\* none, and a filter that is blank
PiecePool ==
    { Lit(<<"a", " ">>), Lit(AndOp),
      Tok(<<"w">>), Tok(<<"v">>), Tok(<<"u">>),
      TokOnly(<<"w">>, <<"A", "C", "M", "E">>),
      TokOnly(<<"w">>, <<" ", "B", " ", "c", " ">>),
      TokOnly(<<"w">>, <<"z", "z">>),
      TokOnly(<<"w">>, <<" ">>) }

PieceLists == UNION { [1..n -> PiecePool] : n \in 0..MaxPieces }

\* watchlists for the calls: w holds terms that differ in case only, a
\* term of several words, a blank term and a term that reads as a
\* placeholder of v
CallWatchlists ==
    (<<"w">> :> << <<"A", "c", "m", "e">>, <<"a", "c", "m", "e">>,
                  <<"b", " ", "c">>, <<" ">>, TokenV >>)
    @@ (<<"v">> :> << <<"z">> >>)

\* templates handed to _build_query_from_template
OrPool == { <<>>, << <<"a">> >>, << <<"a">>, <<"b", " ", "c">> >>, << <<" ">> >> }

AndPool ==
    { <<>>,
      << Render(Tok(<<"w">>)) >>,
      << <<"x">>, Render(Tok(<<"v">>)) >>,
      << <<"x">>, <<"y">> >>,
      << <<" ">>, <<" ", "x", " ">> >>,
      << Render(TokOnly(<<"w">>, <<"z", "z">>)) >>,
      << <<"x">>, Render(TokOnly(<<"w">>, <<"z", "z">>)), <<"y">> >>,
      << Render(Tok(<<"u">>)) >> }

GlobalAndPool == { <<>>, <<"g">>, <<"g", ":", "h", " ", "i">>, <<" ">> }

ExcludePool == { <<>>, << <<"x">> >>, << <<"x">>, <<" ", "y", " ">> >>, << <<" ">> >> }

CallOf(fn) ==
    [fn |-> fn, term |-> <<>>, terms |-> <<>>, pieces |-> <<>>,
     template |-> NoTemplate, watchlists |-> CallWatchlists, global_and |-> <<>>,
     exclude_domains |-> <<>>]

Calls ==
    { [CallOf("_quote_term") EXCEPT !.term = t] : t \in TermPool }
      \cup { [CallOf("_join_or") EXCEPT !.terms = ts] : ts \in TermLists }
      \cup { [CallOf("_join_and") EXCEPT !.terms = ts] : ts \in TermLists }
      \cup { [CallOf("_expand_watchlist_tokens") EXCEPT !.pieces = ps] :
             ps \in PieceLists }
      \cup { [CallOf("_build_query_from_template") EXCEPT
                 !.template = [or |-> o, and |-> a],
                 !.global_and = g, !.exclude_domains = x] :
             o \in OrPool, a \in AndPool, g \in GlobalAndPool, x \in ExcludePool }

\* no run of build_news_sections is in progress during a call
NoRun ==
    [sections |-> <<>>, watchlists |-> Watchlists, global_and |-> <<>>,
     exclude_domains |-> <<>>, throttle_s |-> 0]

CallInit ==
    /\ call \in Calls
    /\ result = NoResult
    /\ cfg = NoRun
    /\ pc = "call"
    /\ idx = 0
    /\ out_sections = <<>>
    /\ query = <<>>
    /\ attempt = 1
    /\ last_err = NoErr
    /\ items = <<>>
    /\ exc = NoErr
    /\ _LAST_GDELT_CALL_TS = 0
    /\ now = StartClock
    /\ lastCallAt = -1
    /\ iterStart = StartClock
    /\ hist = <<>>

\* the function returns v, or raises
Returns(r) ==
    /\ pc = "call"
    /\ result' = r
    /\ pc' = "called"
    /\ UNCHANGED <<cfg, idx, out_sections, query, attempt, last_err, items, exc,
                   _LAST_GDELT_CALL_TS, now, lastCallAt, iterStart, hist, call>>

CallQuoteTerm ==
    /\ call.fn = "_quote_term"
    /\ Returns(Ret(_quote_term(call.term)))

CallJoinOr ==
    /\ call.fn = "_join_or"
    /\ Returns(Ret(_join_or(call.terms)))

CallJoinAnd ==
    /\ call.fn = "_join_and"
    /\ Returns(Ret(_join_and(call.terms)))

CallExpand ==
    /\ call.fn = "_expand_watchlist_tokens"
    /\ Returns(_expand_watchlist_tokens(RenderAll(call.pieces), call.watchlists))

CallBuildQuery ==
    /\ call.fn = "_build_query_from_template"
    /\ Returns(_build_query_from_template(call.template, call.watchlists,
                                          call.global_and, call.exclude_domains))

CallNext ==
    \/ CallQuoteTerm
    \/ CallJoinOr
    \/ CallJoinAnd
    \/ CallExpand
    \/ CallBuildQuery

SpecCalls == CallInit /\ [][CallNext]_vars

\* the call of function fn has returned or raised
Called(fn) == pc = "called" /\ call.fn = fn

(***************************************************************************)
(* Vocabulary of the properties.                                           *)
(***************************************************************************)

NumTopics == Len(cfg.sections)

\* the run is over: build_news_sections returned or raised
Ended == pc \in {"returned", "raised"}

\* the processing of the section at position i is over
Done(i) == i < idx \/ (i = idx /\ pc \in {"loop", "returned", "raised"})

\* _gdelt_search is running for the current section
InSearch == pc \in {"backoff", "spacing", "request"}

\* the fetch of the section at position i made every attempt and none succeeded
Exhausted(i) == hist[i].okAt = 0 /\ hist[i].calls = Len(backoffs)

\* the rate limiter's timestamp when the processing of section i was over
TsAfter(i) == IF i < Len(hist) THEN hist[i + 1].ts0 ELSE _LAST_GDELT_CALL_TS

\* the section at position i of the output is the error section of topic i
\* carrying the message of e
IsErrorSectionOf(i, e) ==
    /\ i <= Len(out_sections)
    /\ out_sections[i].id = SectionId(cfg.sections[i].name.text)
    /\ "error" \in DOMAIN out_sections[i].data
    /\ out_sections[i].data.error = StrOf(e)
    /\ out_sections[i].data.items = <<>>

\* the section at position i of the output is the section of topic i
\* carrying the given items and no error
IsItemsSectionOf(i, its) ==
    /\ i <= Len(out_sections)
    /\ out_sections[i].id = SectionId(cfg.sections[i].name.text)
    /\ "error" \notin DOMAIN out_sections[i].data
    /\ out_sections[i].data.items = its

\* the query of the section at position i resolves to a blank string
BlankQuery(i) ==
    LET r == ResolveQuery(cfg.sections[i], cfg) IN r.ok /\ Strip(r.val) = <<>>

\* resolving the query of the section at position i meets a placeholder
\* whose name is no watchlist
MissingWatchlist(i) ==
    LET r == ResolveQuery(cfg.sections[i], cfg) IN
    ~r.ok /\ r.err.text = "Missing watchlist"

\* what _gdelt_search returns for the articles of a response
ItemsOf(arts, max_items) ==
    LET t == Take(arts, max_items) IN [j \in 1..Len(t) |-> Project(t[j])]

(***************************************************************************)
(* C1: for every list of N topic definitions and every pattern of compile  *)
(* and fetch outcomes, build_news_sections returns exactly N sections, and *)
(* the i-th section is the one built from the i-th topic (its id and title *)
(* derive from that topic's name).                                         *)
(***************************************************************************)
C1_OneSectionPerTopic ==
    Ended =>
        /\ pc = "returned"
        /\ Len(out_sections) = NumTopics
        /\ \A i \in 1..NumTopics :
             /\ out_sections[i].id = SectionId(cfg.sections[i].name.text)
             /\ out_sections[i].title = SectionTitle(cfg.sections[i].name.text)

(***************************************************************************)
(* C2: no error raised while processing a single topic, the construction   *)
(* of its error section included, ever propagates out of                   *)
(* build_news_sections: the batch always returns normally.                 *)
(***************************************************************************)
C2_NothingPropagates == pc # "raised"

(***************************************************************************)
(* C3: batch isolation.  When the fetch of topic k exhausts all retries,   *)
(* every topic after k is still processed, topic k carries an error        *)
(* payload and the topics whose fetch succeeded carry their items with no  *)
(* error, all in the original order.                                       *)
(***************************************************************************)
C3_BatchIsolation ==
    Ended =>
        \A k \in 1..Len(hist) :
            Exhausted(k) =>
                /\ Len(hist) = NumTopics
                /\ IsErrorSectionOf(k, hist[k].lastFailure)
                /\ \A j \in 1..NumTopics :
                     hist[j].okAt > 0 =>
                         IsItemsSectionOf(j, ItemsOf(hist[j].okArticles,
                                                     cfg.sections[j].count))

(***************************************************************************)
(* C4: between any two consecutive outbound HTTP calls of the process,     *)
(* two retries of one topic or the last attempt of one topic and the first *)
(* of the next, at least the minimum spacing of 5.1 s passes.  In a state  *)
(* at "request" the next call is issued at the current time.               *)
(***************************************************************************)
C4_MinimumSpacing ==
    (pc = "request" /\ lastCallAt >= 0) => now - lastCallAt >= 51

\* the first attempt of the second topic is about to be issued exactly 5.1 s
\* after the last attempt of the first topic: the limiter slept
C4_Witness ==
    /\ pc = "request"
    /\ idx = 2
    /\ hist[2].calls = 0
    /\ hist[1].calls > 0
    /\ now - lastCallAt = 51

(***************************************************************************)
(* C5: for a topic whose resolved query is blank the assembler emits an    *)
(* error section and makes no HTTP attempt for that topic, and the rate    *)
(* limiter's timestamp is what it was before the topic.                    *)
(***************************************************************************)
C5_BlankQueryErrorSection ==
    \A i \in 1..Len(hist) :
        (Done(i) /\ BlankQuery(i)) =>
            /\ IsErrorSectionOf(i, Exc("RuntimeError", "Empty query generated for section",
                                       cfg.sections[i].name.text))
            /\ hist[i].calls = 0
            /\ TsAfter(i) = hist[i].ts0

(***************************************************************************)
(* C6: if the fetch of a topic fails on attempts 1..k-1 and succeeds on    *)
(* attempt k, the retry loop stops at attempt k and the topic's section    *)
(* holds exactly the items of the successful attempt and no error.         *)
(***************************************************************************)
C6_SuccessEndsRetries ==
    \A i \in 1..Len(hist) :
        (Done(i) /\ hist[i].okAt > 0) =>
            /\ hist[i].calls = hist[i].okAt
            /\ IsItemsSectionOf(i, ItemsOf(hist[i].okArticles, cfg.sections[i].count))

(***************************************************************************)
(* C7: one topic fetch makes at most five HTTP attempts, the length of the *)
(* backoff sequence 0, 5, 5, 10, 15 s; the first attempt has no backoff    *)
(* wait, and attempt i > 1 is preceded by a sleep of exactly the i-th      *)
(* entry.  In a state at "spacing" the backoff sleep of the attempt is     *)
(* over, and iterStart is when the iteration began.                        *)
(***************************************************************************)
C7_BackoffSequence ==
    /\ \A i \in 1..Len(hist) : hist[i].calls <= 5
    /\ InSearch => attempt = hist[idx].calls + 1
    /\ pc = "spacing" => now - iterStart = <<0, 50, 50, 100, 150>>[attempt]

\* the fifth attempt is about to be made, 15 s after the fourth failed
C7_Witness ==
    /\ pc = "spacing"
    /\ attempt = 5
    /\ hist[idx].calls = 4
    /\ now - iterStart = 150

(***************************************************************************)
(* C8: when all attempts of a topic fetch fail, _gdelt_search raises the   *)
(* error of the last attempt, and that error's message is what the topic's *)
(* error section carries.                                                  *)
(***************************************************************************)
C8_LastErrorReported ==
    /\ (pc = "except" /\ Exhausted(idx)) => exc = hist[idx].lastFailure
    /\ \A i \in 1..Len(hist) :
         (Done(i) /\ Exhausted(i)) => IsErrorSectionOf(i, hist[i].lastFailure)

(***************************************************************************)
(* C9: every failure of a fetch attempt, a retryable status, another error *)
(* status, a malformed body or a timeout, is caught by the retry loop,     *)
(* consumes exactly one retry slot and is followed by another attempt      *)
(* unless the sequence is exhausted: a fetch that is over without a        *)
(* success has made all five attempts.                                     *)
(***************************************************************************)
C9_EveryFailureRetried ==
    /\ InSearch =>
         /\ attempt = hist[idx].calls + 1
         /\ hist[idx].okAt = 0
         /\ (attempt > 1 <=> last_err # NoErr)
    /\ \A i \in 1..Len(hist) :
         (i < idx \/ ~InSearch) =>
             (hist[i].okAt > 0 \/ hist[i].calls = 0 \/ hist[i].calls = 5)

\* a status that is not retryable failed the second attempt and the third
\* attempt is next
C9_Witness ==
    /\ pc = "backoff"
    /\ attempt = 3
    /\ last_err.exc = "HTTPError"

(***************************************************************************)
(* C10: expanding a placeholder whose name is not a key of the watchlist   *)
(* map fails with an error; the enclosing topic gets an error section and  *)
(* no HTTP attempt, and the other topics are unaffected (the run goes on). *)
(***************************************************************************)
C10_MissingWatchlistIsolated ==
    \A i \in 1..Len(hist) :
        (Done(i) /\ MissingWatchlist(i)) =>
            /\ IsErrorSectionOf(i, ResolveQuery(cfg.sections[i], cfg).err)
            /\ hist[i].calls = 0
            /\ pc # "raised"

(***************************************************************************)
(* What the section assembler does guarantee: when every configured name   *)
(* is a string, the statements of C1, C2, C3, C5, C6, C8 and C10 hold.     *)
(***************************************************************************)
AllNamesAreStrings == \A i \in 1..NumTopics : cfg.sections[i].name.isStr

StringNamesIsolation ==
    AllNamesAreStrings =>
        /\ C1_OneSectionPerTopic
        /\ C2_NothingPropagates
        /\ C3_BatchIsolation
        /\ C5_BlankQueryErrorSection
        /\ C6_SuccessEndsRetries
        /\ C8_LastErrorReported
        /\ C10_MissingWatchlistIsolated

\* section i is a template and has been compiled
Compiled(i) ==
    /\ i \in 1..Len(hist)
    /\ cfg.sections[i].type = "gdelt_template"
    /\ (i < idx \/ pc # "try")

KeptTerms(terms) == SelectSeq(terms, LAMBDA t : Strip(t) # <<>>)

\* each term of a list, quoted
QuotedTerms(terms) == [i \in 1..Len(terms) |-> _quote_term(terms[i])]

\* c1 op c2 op ... cn, for one clause or more
RECURSIVE Chain(_, _)
Chain(clauses, op) ==
    IF Len(clauses) = 1 THEN clauses[1]
    ELSE clauses[1] \o op \o Chain(Tail(clauses), op)

Parens(text) == <<"(">> \o text \o <<")">>

HasSpace(t) == \E i \in 1..Len(t) : IsSpace(t[i])

\* the term begins and ends with a double quote
QuoteDelimited(t) == Len(t) >= 2 /\ t[1] = "\"" /\ t[Len(t)] = "\""

\* the term holds field syntax, a boolean operator or a parenthesis
HasOperators(t) ==
    \/ Contains(t, <<":">>)
    \/ Contains(t, AndOp) \/ Contains(t, OrOp)
    \/ Contains(t, <<"(">>) \/ Contains(t, <<")">>)

(***************************************************************************)
(* C12: the OR join of a list that is empty or all blank is the empty      *)
(* string; of a list with exactly one non-blank term it is that term,      *)
(* quoted, without parentheses; of a list with two or more it is           *)
(* (t1 OR t2 OR ...) over the quoted non-blank terms in input order.       *)
(***************************************************************************)
C12_OrJoinShape ==
    Called("_join_or") =>
        LET q == QuotedTerms(KeptTerms(call.terms)) IN
        /\ result.ok
        /\ Len(q) = 0 => result.val = <<>>
        /\ Len(q) = 1 => result.val = q[1]
        /\ Len(q) >= 2 => result.val = Parens(Chain(q, OrOp))

\* a blank term, a single word and a term of two words gave (a OR "b c")
C12_Witness ==
    /\ Called("_join_or")
    /\ call.terms = << <<" ">>, <<"a">>, <<"b", " ", "c">> >>
    /\ result.val = <<"(", "a", " ", "O", "R", " ", "\"", "b", " ", "c", "\"", ")">>

(***************************************************************************)
(* C13 as claimed: the term quoter returns the empty string for a blank    *)
(* term; the trimmed term unmodified when it contains a colon, " AND ",    *)
(* " OR " or a parenthesis or is delimited by double quotes; otherwise the *)
(* trimmed term in double quotes if it contains whitespace and bare if not.*)
(***************************************************************************)
C13_QuoterAsClaimed ==
    Called("_quote_term") =>
        LET t == Strip(call.term) IN
        /\ result.ok
        /\ t = <<>> => result.val = <<>>
        /\ (t # <<>> /\ (HasOperators(t) \/ QuoteDelimited(t))) => result.val = t
        /\ (t # <<>> /\ ~HasOperators(t) /\ ~QuoteDelimited(t)) =>
               result.val = IF HasSpace(t) THEN Quote \o t \o Quote ELSE t

(***************************************************************************)
(* C13 amended: the same, with "contains a double quote anywhere" in place *)
(* of "is delimited by double quotes".                                     *)
(***************************************************************************)
C13_QuoterLeavesAnyQuoteAlone ==
    Called("_quote_term") =>
        LET t == Strip(call.term)
            marked == HasOperators(t) \/ Contains(t, Quote)
        IN
        /\ result.ok
        /\ t = <<>> => result.val = <<>>
        /\ (t # <<>> /\ marked) => result.val = t
        /\ (t # <<>> /\ ~marked) =>
               result.val = IF HasSpace(t) THEN Quote \o t \o Quote ELSE t

\* a term of two words with a quote inside, not delimited by quotes, came
\* back as it was
C13_Witness ==
    /\ Called("_quote_term")
    /\ call.term = <<"a", " ">> \o Quote \o <<"b">>
    /\ result.val = call.term

(***************************************************************************)
(* Vocabulary of the properties of the query compiler.                     *)
(***************************************************************************)

\* the and fragments that are not blank, trimmed, in list order
Fragments(and_list) ==
    LET kept == KeptTerms(and_list) IN [i \in 1..Len(kept) |-> Strip(kept[i])]

\* every placeholder of every fragment names a watchlist of the map
AllExpand(and_list, watchlists) ==
    \A i \in 1..Len(Fragments(and_list)) :
        _expand_watchlist_tokens(Fragments(and_list)[i], watchlists).ok

\* step 1: the OR join of the or list, when the list is not empty
OrClause(template) ==
    IF template.or # <<>> THEN <<_join_or(template.or)>> ELSE <<>>

\* step 2: one clause per fragment, expanded, in list order
AndClauses(template, watchlists) ==
    [i \in 1..Len(Fragments(template.and)) |->
        _expand_watchlist_tokens(Fragments(template.and)[i], watchlists).val]

\* step 3: the global AND suffix as it is
GlobalClause(global_and) ==
    IF Strip(global_and) # <<>> THEN <<Strip(global_and)>> ELSE <<>>

\* domain:<d> for each excluded domain that is not blank
DomainTerms(exclude_domains) ==
    [i \in 1..Len(Fragments(exclude_domains)) |->
        <<"d", "o", "m", "a", "i", "n", ":">> \o Fragments(exclude_domains)[i]]

\* step 4 as the specification writes it: -(domain:a OR domain:b ...)
ExclusionClauseAsClaimed(exclude_domains) ==
    LET ds == DomainTerms(exclude_domains) IN
    IF ds = <<>> THEN <<>> ELSE << <<"-">> \o Parens(Chain(ds, OrOp)) >>

\* step 4 as the OR join gives it: -(X), X the OR join of the domain terms
ExclusionClauseOfOrJoin(exclude_domains) ==
    LET ds == DomainTerms(exclude_domains) IN
    IF ds = <<>> THEN <<>> ELSE << <<"-">> \o Parens(_join_or(ds)) >>

\* the AND join of the clauses, blank ones dropped, in the order given
AndJoined(clauses) ==
    LET kept == Fragments(clauses) IN
    IF kept = <<>> THEN <<>>
    ELSE IF Len(kept) = 1 THEN kept[1]
    ELSE Parens(Chain(kept, AndOp))

(***************************************************************************)
(* C14: the compiled query is the AND join of the clauses in the fixed     *)
(* order (1) the OR join of the or list, (2) each non-blank and fragment   *)
(* after watchlist expansion, as its own clause, in list order, (3) the    *)
(* global AND suffix, (4) the exclusion clause -(domain:a OR domain:b ...);*)
(* steps 1, 3 and 4 give at most one clause each and no clause is          *)
(* reordered or merged.                                                    *)
(***************************************************************************)
C14_ClauseOrderAsClaimed ==
    (Called("_build_query_from_template")
        /\ AllExpand(call.template.and, call.watchlists))
    => /\ result.ok
       /\ result.val =
            AndJoined(OrClause(call.template)
                      \o AndClauses(call.template, call.watchlists)
                      \o GlobalClause(call.global_and)
                      \o ExclusionClauseAsClaimed(call.exclude_domains))

\* what does hold: the same with the exclusion clause -(X), X being the OR
\* join of the domain terms, which has parentheses of its own when two or
\* more domains are excluded
C14_ClauseOrderWithOrJoinedExclusions ==
    (Called("_build_query_from_template")
        /\ AllExpand(call.template.and, call.watchlists))
    => /\ result.ok
       /\ result.val =
            AndJoined(OrClause(call.template)
                      \o AndClauses(call.template, call.watchlists)
                      \o GlobalClause(call.global_and)
                      \o ExclusionClauseOfOrJoin(call.exclude_domains))

(***************************************************************************)
(* Vocabulary of the properties of the watchlist expander.                 *)
(***************************************************************************)

\* the text of the call is one placeholder with a filter, naming a
\* watchlist of the map
OneFilteredToken ==
    /\ Called("_expand_watchlist_tokens")
    /\ Len(call.pieces) = 1
    /\ call.pieces[1].isTok /\ call.pieces[1].hasOnly
    /\ call.pieces[1].name \in DOMAIN call.watchlists

\* the terms of a list equal to exact when case and the blanks around them
\* are ignored
EqualTerms(terms, exact) ==
    SelectSeq(terms, LAMBDA t : Lower(Strip(t)) = Lower(Strip(exact)))

\* a placeholder whose filter no term of w matches
NoMatchToken == Render(TokOnly(<<"w">>, <<"z", "z">>))

\* the template of the call without the fragments that are NoMatchToken
WithoutNoMatch(template) ==
    [or |-> template.or,
     and |-> SelectSeq(template.and, LAMBDA f : f # NoMatchToken)]

(***************************************************************************)
(* C15 as claimed: a placeholder {{watchlist:NAME|only:EXACT}} is replaced *)
(* by the OR join of exactly the terms of the named watchlist that equal   *)
(* EXACT when case is ignored; when none matches it is replaced by the     *)
(* empty string, without an error, so an and fragment that is only such a  *)
(* placeholder contributes no clause to the compiled query.                *)
(***************************************************************************)
C15_OnlyFilterAsClaimed ==
    /\ OneFilteredToken =>
          LET p == call.pieces[1] IN
          /\ result.ok
          /\ result.val = _join_or(EqualTerms(call.watchlists[p.name], p.only))
    /\ Called("_build_query_from_template") =>
          result = _build_query_from_template(
                       WithoutNoMatch(call.template), call.watchlists,
                       call.global_and, call.exclude_domains)

(***************************************************************************)
(* C15 amended: the same when EXACT is not blank; a placeholder whose      *)
(* EXACT is blank is replaced by the OR join of the whole watchlist.       *)
(***************************************************************************)
C15_OnlyFilter ==
    /\ OneFilteredToken =>
          LET p == call.pieces[1]
              terms == call.watchlists[p.name]
          IN
          /\ result.ok
          /\ Strip(p.only) # <<>> => result.val = _join_or(EqualTerms(terms, p.only))
          /\ Strip(p.only) = <<>> => result.val = _join_or(terms)
    /\ Called("_build_query_from_template") =>
          result = _build_query_from_template(
                       WithoutNoMatch(call.template), call.watchlists,
                       call.global_and, call.exclude_domains)

\* only:ACME kept the two terms that differ from it in case only
C15_Witness ==
    /\ OneFilteredToken
    /\ call.pieces[1].only = <<"A", "C", "M", "E">>
    /\ result.val = Parens(<<"A", "c", "m", "e">> \o OrOp \o <<"a", "c", "m", "e">>)

\* an and fragment that is only a placeholder whose filter matches nothing
\* left the compiled query to the or list alone
C15_WitnessNoClause ==
    /\ Called("_build_query_from_template")
    /\ call.template = [or |-> << <<"a">> >>, and |-> <<NoMatchToken>>]
    /\ call.global_and = <<>> /\ call.exclude_domains = <<>>
    /\ result = Ret(<<"a">>)

\* what one piece of the input becomes
Expansion(p, watchlists) ==
    IF ~p.isTok THEN p.lit
    ELSE IF p.hasOnly /\ Strip(p.only) # <<>>
         THEN _join_or(EqualTerms(watchlists[p.name], p.only))
    ELSE _join_or(watchlists[p.name])

RECURSIVE Expansions(_, _)
Expansions(ps, watchlists) ==
    IF ps = <<>> THEN <<>>
    ELSE Expansion(Head(ps), watchlists) \o Expansions(Tail(ps), watchlists)

\* every placeholder of the call's text names a watchlist of the map
AllNamed ==
    \A i \in 1..Len(call.pieces) :
        call.pieces[i].isTok => call.pieces[i].name \in DOMAIN call.watchlists

(***************************************************************************)
(* C16: expansion is a single pass: every placeholder of the input text is *)
(* expanded on its own, left to right, and the text put in its place (a    *)
(* watchlist term that reads {{watchlist:OTHER}}, say) is not scanned      *)
(* again.  The result is the pieces of the input in order, literal text as *)
(* it is and each placeholder replaced by the OR join of its terms.        *)
(***************************************************************************)
C16_SinglePass ==
    (Called("_expand_watchlist_tokens") /\ AllNamed) =>
        /\ result.ok
        /\ result.val = Expansions(call.pieces, call.watchlists)

\* w, one of whose terms reads {{watchlist:v}}, and v were expanded side
\* by side: the term of w is in the result as it is, and v became z
C16_Witness ==
    /\ Called("_expand_watchlist_tokens")
    /\ call.pieces = <<Tok(<<"w">>), Tok(<<"v">>)>>
    /\ Contains(result.val, TokenV \o <<")", "z">>)

\* the larger of two numbers
Max(a, b) == IF a >= b THEN a ELSE b

(***************************************************************************)
(* C17: within one topic's fetch, the time between the sending of attempt  *)
(* i and the sending of attempt i+1 is at least the larger of the backoff  *)
(* wait of attempt i+1 and the 5.1 s minimum gap, for every i.             *)
(***************************************************************************)
C17_BackoffAndSpacingCompose ==
    (pc = "request" /\ attempt > 1) =>
        now - lastCallAt >= Max(backoffs[attempt], MIN_GAP)

\* the second attempt is about to be sent 5.1 s after the first: its 5 s
\* backoff wait, and 0.1 s more for the minimum gap
C17_Witness ==
    /\ pc = "request"
    /\ attempt = 2
    /\ now - lastCallAt = MIN_GAP

(***************************************************************************)
(* C18: the inter-topic throttle delay is applied exactly once before the  *)
(* processing of every topic except the first and never before the first,  *)
(* whatever the rate limiter state and whether or not the preceding topic  *)
(* made an HTTP attempt; when the configured throttle is not positive      *)
(* there is no such delay.                                                 *)
(***************************************************************************)
C18_ThrottleBetweenTopics ==
    \A i \in 1..Len(hist) :
        hist[i].throttled =
            IF i > 1 /\ cfg.throttle_s > 0 THEN cfg.throttle_s ELSE 0

\* the second topic was delayed by the throttle although the first one
\* made no HTTP attempt, and the first was not delayed
C18_Witness ==
    /\ Len(hist) = 2
    /\ hist[1].throttled = 0
    /\ hist[1].calls = 0 /\ lastCallAt = -1
    /\ pc = "try"
    /\ cfg.throttle_s > 0
    /\ hist[2].throttled = cfg.throttle_s

(***************************************************************************)
(* C19 as claimed: for every HTTP attempt, retries included, the rate      *)
(* limiter state is read before the request is sent and written after it   *)
(* is sent: when a request is about to be sent the state still holds what  *)
(* the previous request left (the time of that request, or 0 before the    *)
(* first).                                                                 *)
(***************************************************************************)
C19_WrittenAfterSendAsClaimed ==
    pc = "request" =>
        _LAST_GDELT_CALL_TS = (IF lastCallAt >= 0 THEN lastCallAt ELSE 0)

(***************************************************************************)
(* C19 amended: for every HTTP attempt, retries included, the rate limiter *)
(* state is read and then written before the request is sent: when a       *)
(* request is about to be sent the state already holds the current time,   *)
(* and the request and its outcome leave it as it is, so that at every     *)
(* other moment it holds the time the last request was sent (0 before the  *)
(* first).                                                                 *)
(***************************************************************************)
C19_WrittenBeforeSend ==
    /\ pc = "request" => _LAST_GDELT_CALL_TS = now
    /\ pc # "request" =>
          _LAST_GDELT_CALL_TS = (IF lastCallAt >= 0 THEN lastCallAt ELSE 0)

\* a retry is about to be sent and the state holds the current time, later
\* than the time of the previous request
C19_Witness ==
    /\ pc = "request"
    /\ attempt > 1
    /\ _LAST_GDELT_CALL_TS = now
    /\ _LAST_GDELT_CALL_TS > lastCallAt

\* the exception the except block of section i caught
CaughtBy(i) ==
    LET r == hist[i].resolved IN
    IF ~r.ok THEN r.err
    ELSE IF Strip(r.val) = <<>>
         THEN Exc("RuntimeError", "Empty query generated for section",
                  cfg.sections[i].name.text)
    ELSE hist[i].lastFailure

(***************************************************************************)
(* C20: every emitted section has exactly one of two shapes: a success     *)
(* section with the fetched items, the topic's count and lookback and the  *)
(* resolved query, and no error field; or an error section with no items,  *)
(* the message of the error caught and the topic's count and lookback.     *)
(* No section has both items and an error.                                 *)
(***************************************************************************)
C20_TwoSectionShapes ==
    \A i \in 1..Len(out_sections) :
        LET d == out_sections[i].data
            t == cfg.sections[i]
        IN
        /\ out_sections[i].type = "news"
        /\ d.count = t.count
        /\ d.lookback_hours = t.lookback_hours
        /\ \/ /\ DOMAIN d = {"items", "count", "lookback_hours", "query"}
              /\ hist[i].okAt > 0
              /\ d.items = ItemsOf(hist[i].okArticles, t.count)
              /\ hist[i].resolved.ok
              /\ d.query = hist[i].resolved.val
           \/ /\ DOMAIN d = {"items", "count", "lookback_hours", "query", "error"}
              /\ hist[i].okAt = 0
              /\ d.items = <<>>
              /\ d.error = StrOf(CaughtBy(i))

\* a success section with items is followed by an error section
C20_Witness ==
    /\ Len(out_sections) = 2
    /\ "error" \notin DOMAIN out_sections[1].data
    /\ out_sections[1].data.items # <<>>
    /\ "error" \in DOMAIN out_sections[2].data
    /\ out_sections[2].data.items = <<>>

(***************************************************************************)
(* C21: for the OR join and for the AND join, joining a list that holds    *)
(* empty or blank strings gives what joining the list without them gives;  *)
(* the AND join of a list with exactly one fragment that is not blank is   *)
(* that fragment (trimmed), without parentheses.                           *)
(***************************************************************************)
C21_BlanksDoNotCount ==
    /\ Called("_join_or") =>
          /\ result.ok
          /\ result.val = _join_or(KeptTerms(call.terms))
    /\ Called("_join_and") =>
          /\ result.ok
          /\ result.val = _join_and(KeptTerms(call.terms))
          /\ Len(KeptTerms(call.terms)) = 1 =>
                result.val = Strip(KeptTerms(call.terms)[1])

\* the AND join of a blank string, a fragment of two words and an empty
\* string is the fragment, without parentheses
C21_Witness ==
    /\ Called("_join_and")
    /\ call.terms = << <<" ">>, <<"b", " ", "c">>, <<>> >>
    /\ result.val = <<"b", " ", "c">>

\* history: the HTTP attempts of the run so far
RECURSIVE TotalCalls(_)
TotalCalls(h) == IF h = <<>> THEN 0 ELSE Head(h).calls + TotalCalls(Tail(h))

\* history: the sections whose processing began with a throttle delay
Throttled == { i \in 1..Len(hist) : hist[i].throttled > 0 }

\* at most 5 attempts per topic and 5 x N in the run, and at most N-1
\* throttle delays
WithinResources ==
    /\ \A i \in 1..Len(hist) : hist[i].calls <= 5
    /\ TotalCalls(hist) <= 5 * NumTopics
    /\ Cardinality(Throttled) <= Max(NumTopics - 1, 0)

(***************************************************************************)
(* C22: for every list of N topics and every pattern of attempt failures   *)
(* (each HTTP call answering or timing out), build_news_sections           *)
(* eventually terminates (it returns, or it raises), and the run makes at  *)
(* most 5 x N HTTP attempts and takes at most N-1 throttle delays.         *)
(***************************************************************************)
C22_TerminatesWithinResources == <>Ended /\ []WithinResources

\* a run over two topics has returned after five failed attempts for the
\* first topic, one throttle delay and one attempt for the second
C22_Witness ==
    /\ pc = "returned"
    /\ NumTopics = 2
    /\ hist[1].calls = 5 /\ hist[1].okAt = 0
    /\ hist[2].calls = 1
    /\ Throttled = {2}

\* a request for the current section is about to be sent with query
Sending == pc = "request"

\* the clauses the defaults of the configuration add to a compiled query
DefaultClauses ==
    GlobalClause(cfg.global_and) \o ExclusionClauseOfOrJoin(cfg.exclude_domains)

(***************************************************************************)
(* C23: the query sent for a topic with a literal query is that string     *)
(* unchanged (no global AND suffix, no exclusion clause, no watchlist      *)
(* expansion, no trimming), whereas the query sent for a templated topic   *)
(* includes the configured global AND suffix and the exclusion clause.     *)
(***************************************************************************)
C23_PlainQuerySentUnchanged ==
    Sending =>
        /\ Cur.type = "gdelt" => query = Cur.query
        /\ Cur.type = "gdelt_template" =>
              \A i \in 1..Len(DefaultClauses) : Contains(query, DefaultClauses[i])

\* a literal query is about to be sent as it is, although the
\* configuration has a global AND suffix and an excluded domain
C23_Witness ==
    /\ Sending
    /\ Cur.type = "gdelt"
    /\ Len(DefaultClauses) = 2
    /\ query = Cur.query
    /\ ~Contains(query, DefaultClauses[1])

\* the query of a templated topic is about to be sent with the suffix and
\* the exclusion clause in it
C23_WitnessTemplated ==
    /\ Sending
    /\ Cur.type = "gdelt_template"
    /\ Len(DefaultClauses) = 2
    /\ Contains(query, DefaultClauses[1]) /\ Contains(query, DefaultClauses[2])

=============================================================================
